---- MODULE Spec2Model ----
(***************************************************************************)
(* A model of the owned-alloc crate: the single-slot handles UninitAlloc   *)
(* and OwnedAlloc (src/src/uninit.rs, src/src/owned.rs) and the raw buffer *)
(* RawVec (src/src/raw_vec.rs), over an abstract heap that stands for the  *)
(* global allocator reached through std::alloc::{alloc, dealloc, realloc}, *)
(* and the zeroizing Allocator (src/src/lib.rs) over the same heap.        *)
(*                                                                         *)
(* Every method is a function from a program state (a record) to the       *)
(* program state after the call, so that a method that calls another one   *)
(* (OwnedAlloc::new = UninitAlloc::new().init(value)) is the composition   *)
(* of their functions.  An action of the model is one call made by the     *)
(* user of the crate.                                                      *)
(***************************************************************************)
EXTENDS Integers, Sequences, FiniteSets

\* ------------------------------------------------------------------ bounds

\* Blocks the heap hands out in one run.
MaxAllocs == 3
\* Values of type T the user constructs in one run.
MaxValues == 2
\* Largest ordinary capacity the user asks of a RawVec.
MaxCap == 2
\* Destructor runs of one value after which the user makes no further into_box
\* call on it (each call runs the destructor once more).
MaxDrops == 1
\* Width of usize in bits.
UsizeBits == 4

UsizeMax == 2 ^ UsizeBits - 1

\* The element types T the model is run for: a zero-sized type, a byte-sized
\* one and a two-byte one aligned to two.
Types ==
    { [size |-> 0, align |-> 1], [size |-> 1, align |-> 1], [size |-> 2, align |-> 2] }

\* Capacities the user passes: the ordinary ones and the largest usize.
Caps == (0 .. MaxCap) \cup {UsizeMax}

\* The handles of one run.  A slot is never reused, so it names one chain of
\* handles: the UninitAlloc, the OwnedAlloc made from it, the Box made from
\* that, ...  Slot 1 holds the handle the user creates, slot 2 the clone the
\* user takes of it.
Slots == {1, 2}

VARIABLES
    T,        \* the element type: [size, align] (mem::size_of::<T>(), mem::align_of::<T>())
    handles,  \* slot -> the handle the user holds there
    blocks,   \* the heap: the sequence of blocks ever handed out, with their bytes
              \* and their address modulo their alignment (mis)
    drops,    \* value -> how many times its destructor has run
    locals,   \* the values of type T the user holds by value
    events,   \* the allocator calls and destructor runs of the last call, in order
    result,   \* how the last call ended
    ret,      \* what the last call returned or read: a value of type T, a capacity
              \* (0: nothing)
    ub,       \* whether an allocator call outside the allocator's contract was made
    lastOp,   \* the last call: its name, its slot, the slot's handle before it and
              \* the bytes that handle pointed to
    obs       \* the observer: the run so far while it is a scenario (see ObsNext)

vars == <<T, handles, blocks, drops, locals, events, result, ret, ub, lastOp, obs>>

\* ---------------------------------------------------------------- pointers

\* A pointer is the block it points into (0: none) and an address part: for a
\* block pointer the offset into the block, for a pointer into no block the
\* address itself.
BlockPtr(b) == [base |-> b, off |-> 0]

\* NonNull::dangling(): the address align_of::<T>(), in no block.
Dangling(t) == [base |-> 0, off |-> t.align]

NoHandle == [kind |-> "none", ptr |-> [base |-> 0, off |-> 0], cap |-> 0, val |-> 0]

Handle(k, p, c, v) == [kind |-> k, ptr |-> p, cap |-> c, val |-> v]

\* ------------------------------------------------------------------ layout

\* Layout::new::<T>()
LayoutNew(t) == [size |-> t.size, align |-> t.align]

\* Layout::from_size_align(size, align): Ok unless size, rounded up to align,
\* overflows usize.
LayoutFromSizeAlign(size, align) ==
    LET rounded == ((size + align - 1) \div align) * align
    IN  IF rounded > UsizeMax
        THEN [ok |-> FALSE, size |-> 0, align |-> align]
        ELSE [ok |-> TRUE, size |-> size, align |-> align]

\* Mutant of MakeLayout: the product wraps around instead of being checked.
MakeLayout_Wrapping(t, cap) ==
    LayoutFromSizeAlign((t.size * cap) % (UsizeMax + 1), t.align)

\* RawVec::make_layout(cap): size_of::<T>().checked_mul(cap), then
\* Layout::from_size_align(total_size, align_of::<T>()).
MakeLayout(t, cap) ==
    IF t.size * cap > UsizeMax
    THEN [ok |-> FALSE, size |-> 0, align |-> t.align]
    ELSE LayoutFromSizeAlign(t.size * cap, t.align)

\* Layout::for_value(self.ptr.as_ref()) of a handle: the layout of T for a
\* handle to one T, the layout of [T] of the slice's length for a handle to a
\* slice.
LayoutForValue(t, hd) ==
    IF hd.kind = "slice"
    THEN [size |-> t.size * hd.cap, align |-> t.align]
    ELSE LayoutNew(t)

\* ------------------------------------------------------------------ events

EvAlloc(layout, p) ==
    [e |-> "alloc", p |-> p, v |-> 0, size |-> layout.size, align |-> layout.align, new |-> 0]

EvDealloc(p, layout) ==
    [e |-> "dealloc", p |-> p, v |-> 0, size |-> layout.size, align |-> layout.align, new |-> 0]

EvRealloc(p, layout, newSize) ==
    [e |-> "realloc", p |-> p, v |-> 0, size |-> layout.size, align |-> layout.align,
     new |-> newSize]

\* alloc::alloc::alloc_zeroed(layout) returning p.
EvAllocZeroed(layout, p) ==
    [e |-> "alloc_zeroed", p |-> p, v |-> 0, size |-> layout.size, align |-> layout.align,
     new |-> 0]

\* core::ptr::write_bytes(p, 0, size)
EvZero(p, size) ==
    [e |-> "zero", p |-> p, v |-> 0, size |-> size, align |-> 0, new |-> 0]

\* core::ptr::copy_nonoverlapping(src, dst, count), recorded at dst.
EvCopy(p, count) ==
    [e |-> "copy", p |-> p, v |-> 0, size |-> count, align |-> 0, new |-> 0]

EvDrop(v) ==
    [e |-> "drop", p |-> [base |-> 0, off |-> 0], v |-> v, size |-> 0, align |-> 0, new |-> 0]

\* The events of kind k among a sequence of events.
Only(evs, k) == SelectSeq(evs, LAMBDA x : x.e = k)

\* -------------------------------------------------------------------- heap

\* The program state a method works on.
St ==
    [handles |-> handles, blocks |-> blocks, drops |-> drops, locals |-> locals,
     events |-> events, result |-> result, ret |-> ret, ub |-> ub]

\* The state at the start of a call.
Enter(s) == [s EXCEPT !.events = <<>>, !.result = "ok", !.ret = 0]

\* ptr and layout name a block the heap handed out with that layout and has
\* not taken back: what dealloc and realloc require of their caller.
ValidBlock(bs, p, layout) ==
    /\ p.base \in 1 .. Len(bs)
    /\ p.off = 0
    /\ bs[p.base].live
    /\ bs[p.base].size = layout.size
    /\ bs[p.base].align = layout.align

\* A byte of a block that nothing has written since the heap handed the
\* block out: its value is unspecified.
Unspec == -1

\* size bytes of unspecified value.
Fresh(size) == [i \in 1 .. size |-> Unspec]

\* The first n bytes of old, then unspecified bytes up to size: what a block
\* holds that realloc made of a block holding old.
Carried(old, n, size) == [i \in 1 .. size |-> IF i <= n THEN old[i] ELSE Unspec]

\* The lesser of two sizes: core::cmp::min.
Min(a, b) == IF a < b THEN a ELSE b

\* A block the heap has taken back: no longer live, released once more.  Its
\* layout, its bytes and the slot it was made for are of no further use.
Released(b) ==
    [size |-> 0, align |-> 0, live |-> FALSE, owner |-> 0, frees |-> b.frees + 1,
     data |-> <<>>, mis |-> 0]

\* std::alloc::alloc(layout) returning a new block, made for slot h.
HeapAlloc(s, layout, h) ==
    [s EXCEPT
        !.blocks = Append(@, [size |-> layout.size, align |-> layout.align,
                              live |-> TRUE, owner |-> h, frees |-> 0,
                              data |-> Fresh(layout.size), mis |-> 0]),
        !.events = Append(@, EvAlloc(layout, BlockPtr(Len(s.blocks) + 1)))]

\* std::alloc::alloc(layout) returning null.
HeapAllocFail(s, layout) ==
    [s EXCEPT !.events = Append(@, EvAlloc(layout, [base |-> 0, off |-> 0]))]

\* std::alloc::dealloc(ptr, layout): the block is taken back.  A call outside
\* the contract (no live block at ptr, or another layout) is recorded in ub,
\* and counted against the block when ptr points to one.
HeapDealloc(s, p, layout) ==
    [s EXCEPT
        !.blocks = IF p.base \in 1 .. Len(s.blocks)
                   THEN [@ EXCEPT ![p.base] = Released(@)]
                   ELSE @,
        !.ub = @ \/ ~ValidBlock(s.blocks, p, layout),
        !.events = Append(@, EvDealloc(p, layout))]

\* What alloc may answer: TRUE (a block) or FALSE (null).  No call is made for
\* a zero-sized layout; a run hands out at most MaxAllocs blocks.
AllocOutcomes(s, layout) ==
    IF layout.size = 0 THEN {TRUE}
    ELSE IF Len(s.blocks) < MaxAllocs THEN {TRUE, FALSE}
    ELSE {}

\* What realloc(ptr, old, new_size) may do.  Within the contract: "moved" (the
\* old block is taken back and a block of the new size returned), "inplace"
\* (the block is resized where it is) or "null" (the old block is untouched).
\* Outside the contract the behaviour is undefined:
\* the process dies ("crash"), or the allocator tolerates the call and answers
\* with a new block ("fresh") or with null.
ReallocOutcomes(s, p, old) ==
    IF ValidBlock(s.blocks, p, old)
    THEN {"null", "inplace"} \cup (IF Len(s.blocks) < MaxAllocs THEN {"moved"} ELSE {})
    ELSE {"null", "crash"} \cup (IF Len(s.blocks) < MaxAllocs THEN {"fresh"} ELSE {})

\* std::alloc::realloc(ptr, old, new_size) with outcome oc, for slot h.
HeapRealloc(s, p, old, newSize, h, oc) ==
    LET ev == EvRealloc(p, old, newSize)
        keep == IF ValidBlock(s.blocks, p, old)
                THEN Min(old.size, newSize)
                ELSE 0
        nb == [size |-> newSize, align |-> old.align, live |-> TRUE, owner |-> h,
               frees |-> 0,
               data |-> Carried(IF keep = 0 THEN <<>> ELSE s.blocks[p.base].data,
                                keep, newSize),
               mis |-> 0]
        s1 == [s EXCEPT !.events = Append(@, ev),
                        !.ub = @ \/ ~ValidBlock(s.blocks, p, old)]
    IN  CASE oc = "moved" ->
                [s1 EXCEPT !.blocks = Append([@ EXCEPT ![p.base] = Released(@)], nb)]
          [] oc = "inplace" ->
                [s1 EXCEPT !.blocks = [@ EXCEPT ![p.base] = nb]]
          [] oc = "fresh" ->
                [s1 EXCEPT !.blocks = Append(@, nb)]
          [] OTHER -> s1

\* The pointer realloc returned (base 0: null).
ReallocPtr(s, p, oc) ==
    CASE oc \in {"moved", "fresh"} -> BlockPtr(Len(s.blocks) + 1)
      [] oc = "inplace" -> p
      [] OTHER -> [base |-> 0, off |-> 0]

\* ------------------------------------------------------------------ values

\* The values a call may be passed: one the user holds, or one constructed for
\* the call (the next unused value).
ArgValues(s) ==
    s.locals \cup (IF Len(s.drops) < MaxValues THEN {Len(s.drops) + 1} ELSE {})

\* The user hands v to a call: v leaves the user's hands (constructed first
\* when it is new).
PassValue(s, v) ==
    IF v > Len(s.drops)
    THEN [s EXCEPT !.drops = Append(@, 0)]
    ELSE [s EXCEPT !.locals = @ \ {v}]

\* The destructor of value v runs (ptr::drop_in_place, or a value of type T
\* going out of scope).
DropValueF(s, v) ==
    [s EXCEPT !.drops[v] = @ + 1, !.events = Append(@, EvDrop(v))]

\* ------------------------------------------------------------- UninitAlloc

\* The handle of slot h, changed.
SetHandle(s, h, hd) == [s EXCEPT !.handles[h] = hd]

SetKind(s, h, k) == [s EXCEPT !.handles[h].kind = k]

\* UninitAlloc::try_new(): a placeholder when T is zero-sized, else
\* alloc(Layout::new::<T>()); null gives Err(AllocError).
UninitTryNewF(s, h, ok) ==
    LET layout == LayoutNew(T)
    IN  IF layout.size = 0
        THEN SetHandle(s, h, Handle("uninit", Dangling(T), 0, 0))
        ELSE IF ok
        THEN SetHandle(HeapAlloc(s, layout, h), h,
                       Handle("uninit", BlockPtr(Len(s.blocks) + 1), 0, 0))
        ELSE [HeapAllocFail(s, layout) EXCEPT !.result = "err_alloc"]

\* UninitAlloc::new(): try_new().unwrap_or_else(|err| panic!(..)).
UninitNewF(s, h, ok) ==
    LET r == UninitTryNewF(s, h, ok)
    IN  IF r.result = "ok" THEN r ELSE [r EXCEPT !.result = "panic"]

\* Mutant of UninitIntoRawF: into_raw without mem::forget(self), so the drop
\* of the UninitAlloc runs when into_raw returns.
UninitIntoRawF_NoForget(s, h) ==
    LET hd == s.handles[h]
        layout == LayoutForValue(T, hd)
    IN  SetKind(IF layout.size # 0 THEN HeapDealloc(s, hd.ptr, layout) ELSE s, h, "rawU")

\* UninitAlloc::into_raw(self): the pointer, the handle forgotten (its drop
\* does not run).
UninitIntoRawF(s, h) == SetKind(s, h, "rawU")

\* UninitAlloc::from_raw(ptr): no value is live at ptr, whatever bytes it holds.
UninitFromRawF(s, h) == [s EXCEPT !.handles[h].kind = "uninit", !.handles[h].val = 0]

\* OwnedAlloc::from_raw(ptr)
OwnedFromRawF(s, h) == SetKind(s, h, "owned")

\* raw.as_ptr().write(value): the slot holds value; what was there is not
\* dropped.
PtrWriteF(s, h, v) == [s EXCEPT !.handles[h].val = v]

\* Mutant of InitF: init gives the value a block of its own (as
\* OwnedAlloc::new would) and lets the UninitAlloc go.
InitF_Fresh(s, h, v) ==
    LET hd == s.handles[h]
        layout == LayoutNew(T)
        r == IF layout.size # 0
             THEN HeapAlloc(HeapDealloc(s, hd.ptr, layout), layout, h)
             ELSE s
    IN  SetHandle(r, h, Handle("owned",
                               IF layout.size # 0 THEN BlockPtr(Len(s.blocks) + 1)
                               ELSE Dangling(T), 0, v))

\* UninitAlloc::init(self, value): into_raw, write, OwnedAlloc::from_raw.
InitF(s, h, v) == OwnedFromRawF(PtrWriteF(UninitIntoRawF(s, h), h, v), h)

\* The handle of slot h is no more.
Gone(s, h) == SetHandle(s, h, [NoHandle EXCEPT !.kind = "gone"])

\* Mutant of UninitDropF: the drop without the `layout.size() != 0` test.
UninitDropF_NoSizeCheck(s, h) ==
    Gone(HeapDealloc(s, s.handles[h].ptr, LayoutForValue(T, s.handles[h])), h)

\* <UninitAlloc<T> as Drop>::drop for T: ?Sized: dealloc with
\* Layout::for_value unless its size is 0.
UninitDropF(s, h) ==
    LET hd == s.handles[h]
        layout == LayoutForValue(T, hd)
    IN  Gone(IF layout.size # 0 THEN HeapDealloc(s, hd.ptr, layout) ELSE s, h)

\* -------------------------------------------------------------- OwnedAlloc

\* OwnedAlloc::new(value): UninitAlloc::new().init(value).  When new()
\* panics, value is dropped by the unwinding.
OwnedNewF(s, h, v, ok) ==
    LET r == UninitNewF(s, h, ok)
    IN  IF r.result = "ok" THEN InitF(r, h, v) ELSE DropValueF(r, v)

\* OwnedAlloc::try_new(value): UninitAlloc::try_new().map(|alloc|
\* alloc.init(value)).  On Err the closure, and value in it, is dropped.
OwnedTryNewF(s, h, v, ok) ==
    LET r == UninitTryNewF(s, h, ok)
    IN  IF r.result = "ok" THEN InitF(r, h, v) ELSE DropValueF(r, v)

\* OwnedAlloc::into_raw(self): the pointer, the handle forgotten.
OwnedIntoRawF(s, h) == SetKind(s, h, "rawO")

\* <OwnedAlloc<T> as Drop>::drop: the value's destructor runs; the dealloc
\* call in the `if layout.size() != 0` branch is commented out.
OwnedDropF(s, h) == Gone(DropValueF(s, s.handles[h].val), h)

\* Mutant of MoveInnerF: move_inner without mem::forget(self), so the drop of
\* the OwnedAlloc runs when move_inner returns.
MoveInnerF_NoForget(s, h) ==
    LET hd == s.handles[h]
        r == SetHandle(OwnedDropF(s, h), h, Handle("uninit", hd.ptr, 0, 0))
    IN  [r EXCEPT !.locals = @ \cup {hd.val}, !.ret = hd.val]

\* OwnedAlloc::move_inner(self): the value is read out, the pointer goes to an
\* UninitAlloc, self is forgotten.
MoveInnerF(s, h) ==
    LET val == s.handles[h].val
        r == UninitFromRawF(s, h)
    IN  [r EXCEPT !.locals = @ \cup {val}, !.ret = val]

\* Mutant of DropInPlaceF: UninitAlloc::from_raw(self.ptr) in place of
\* from_raw(self.into_raw()), so the drop of the OwnedAlloc runs as well.
DropInPlaceF_NoForget(s, h) ==
    LET hd == s.handles[h]
    IN  SetHandle(OwnedDropF(DropValueF(s, hd.val), h), h, Handle("uninit", hd.ptr, 0, 0))

\* OwnedAlloc::drop_in_place(self): ptr.drop_in_place(), then
\* UninitAlloc::from_raw(self.into_raw()).
DropInPlaceF(s, h) ==
    UninitFromRawF(OwnedIntoRawF(DropValueF(s, s.handles[h].val), h), h)

\* OwnedAlloc::forget_inner(self): UninitAlloc::from_raw(self.into_raw()).
ForgetInnerF(s, h) == UninitFromRawF(OwnedIntoRawF(s, h), h)

\* OwnedAlloc::into_box(self): Box::from_raw(self.ptr.as_ptr()); self is not
\* forgotten, so its drop runs when into_box returns.
IntoBoxF(s, h) ==
    LET hd == s.handles[h]
    IN  SetHandle(OwnedDropF(s, h), h, Handle("box", hd.ptr, 0, hd.val))

\* OwnedAlloc::from_box(boxed): from_raw(Box::into_raw(boxed)).
FromBoxF(s, h) == OwnedFromRawF(s, h)

\* Box<T> going out of scope (std): the value's destructor, then dealloc with
\* the value's layout unless its size is 0.
BoxDropF(s, h) ==
    LET hd == s.handles[h]
        layout == LayoutForValue(T, hd)
        r == DropValueF(s, hd.val)
    IN  Gone(IF layout.size # 0 THEN HeapDealloc(r, hd.ptr, layout) ELSE r, h)

\* <OwnedAlloc<T> as Deref>::deref: the value at ptr.
DerefF(s, h) == [s EXCEPT !.ret = s.handles[h].val]

\* Mutant of DerefMutAssignF: deref_mut hands out a reference to a temporary,
\* so the write is lost and w is dropped with the temporary.
DerefMutAssignF_Lost(s, h, w) == DropValueF(s, w)

\* `*alloc = w` through <OwnedAlloc<T> as DerefMut>::deref_mut: the assignment
\* drops the value that was there and stores w.
DerefMutAssignF(s, h, w) == PtrWriteF(DropValueF(s, s.handles[h].val), h, w)

\* Mutant of CloneF: a shallow clone, the new handle taking the pointer of the
\* old one.
CloneF_Alias(s, h, h2, v2, ok) ==
    SetHandle(s, h2, Handle("owned", s.handles[h].ptr, 0, s.handles[h].val))

\* <OwnedAlloc<T> as Clone>::clone(&self): Self::new((**self).clone()) into
\* slot h2; v2 is the clone of the value.
CloneF(s, h, h2, v2, ok) == OwnedNewF(s, h2, v2, ok)

\* ------------------------------------------------------------------ RawVec

\* RawVec::new(): capacity 0 and a dangling pointer.
VecNewF(s, h) == SetHandle(s, h, Handle("vec", Dangling(T), 0, 0))

\* RawVec::try_with_capacity(cap): make_layout(cap)?, a dangling pointer when
\* the layout is zero-sized, else alloc(layout); null gives Err(Alloc).
TryWithCapacityF(s, h, cap, ok) ==
    LET layout == MakeLayout(T, cap)
    IN  IF ~layout.ok
        THEN [s EXCEPT !.result = "err_layout"]
        ELSE IF layout.size = 0
        THEN SetHandle(s, h, Handle("vec", Dangling(T), cap, 0))
        ELSE IF ok
        THEN SetHandle(HeapAlloc(s, layout, h), h,
                       Handle("vec", BlockPtr(Len(s.blocks) + 1), cap, 0))
        ELSE [HeapAllocFail(s, layout) EXCEPT !.result = "err_alloc"]

\* The non-fallible forms: Err(Alloc) goes to handle_alloc_error, Err(Layout)
\* to panic!.
Infallible(r) ==
    CASE r.result = "err_alloc" -> [r EXCEPT !.result = "abort"]
      [] r.result = "err_layout" -> [r EXCEPT !.result = "panic"]
      [] OTHER -> r

\* RawVec::with_capacity(cap)
WithCapacityF(s, h, cap, ok) == Infallible(TryWithCapacityF(s, h, cap, ok))

\* Mutant of FreeF: no test of mem::size_of::<T>().
FreeF_NoSizeCheck(s, h) ==
    LET hd == s.handles[h]
        layout == MakeLayout(T, hd.cap)
    IN  IF hd.cap # 0
        THEN IF layout.ok
             THEN HeapDealloc(s, hd.ptr, layout)
             ELSE [s EXCEPT !.result = "panic"]
        ELSE s

\* RawVec::free(&self): dealloc(ptr, make_layout(cap).unwrap()) unless cap is
\* 0 or T is zero-sized.
FreeF(s, h) ==
    LET hd == s.handles[h]
        layout == MakeLayout(T, hd.cap)
    IN  IF hd.cap # 0 /\ T.size # 0
        THEN IF layout.ok
             THEN HeapDealloc(s, hd.ptr, layout)
             ELSE [s EXCEPT !.result = "panic"]
        ELSE s

\* Mutant of TryResizeF: the new pointer is stored and the capacity is not.
TryResizeF_StaleCap(s, h, newCap, oc) ==
    LET hd == s.handles[h]
        layout == MakeLayout(T, newCap)
        old == MakeLayout(T, hd.cap)
    IN  IF ~layout.ok
        THEN [s EXCEPT !.result = "err_layout"]
        ELSE IF layout.size = 0
        THEN LET r == FreeF(s, h)
             IN  IF r.result = "ok"
                 THEN SetHandle(r, h, Handle("vec", Dangling(T), hd.cap, 0))
                 ELSE r
        ELSE IF ~old.ok
        THEN [s EXCEPT !.result = "panic"]
        ELSE LET r == HeapRealloc(s, hd.ptr, old, layout.size, h, oc)
             IN  CASE oc \in {"moved", "inplace", "fresh"} ->
                        SetHandle(r, h, Handle("vec", ReallocPtr(s, hd.ptr, oc), hd.cap, 0))
                   [] oc = "crash" -> [r EXCEPT !.result = "crash"]
                   [] OTHER -> [r EXCEPT !.result = "err_alloc"]

\* Mutant of TryResizeF: the buffer is freed when realloc returns null.
TryResizeF_FreeOnErr(s, h, newCap, oc) ==
    LET hd == s.handles[h]
        layout == MakeLayout(T, newCap)
        old == MakeLayout(T, hd.cap)
    IN  IF ~layout.ok
        THEN [s EXCEPT !.result = "err_layout"]
        ELSE IF layout.size = 0
        THEN LET r == FreeF(s, h)
             IN  IF r.result = "ok"
                 THEN SetHandle(r, h, Handle("vec", Dangling(T), newCap, 0))
                 ELSE r
        ELSE IF ~old.ok
        THEN [s EXCEPT !.result = "panic"]
        ELSE LET r == HeapRealloc(s, hd.ptr, old, layout.size, h, oc)
             IN  CASE oc \in {"moved", "inplace", "fresh"} ->
                        SetHandle(r, h, Handle("vec", ReallocPtr(s, hd.ptr, oc), newCap, 0))
                   [] oc = "crash" -> [r EXCEPT !.result = "crash"]
                   [] OTHER -> [FreeF(r, h) EXCEPT !.result = "err_alloc"]

\* Mutant of TryResizeF: the buffer is freed and another one allocated, with
\* no realloc call.
TryResizeF_AllocFree(s, h, newCap, oc) ==
    LET hd == s.handles[h]
        layout == MakeLayout(T, newCap)
        old == MakeLayout(T, hd.cap)
    IN  IF ~layout.ok
        THEN [s EXCEPT !.result = "err_layout"]
        ELSE IF layout.size = 0
        THEN LET r == FreeF(s, h)
             IN  IF r.result = "ok"
                 THEN SetHandle(r, h, Handle("vec", Dangling(T), newCap, 0))
                 ELSE r
        ELSE IF ~old.ok
        THEN [s EXCEPT !.result = "panic"]
        ELSE CASE oc \in {"moved", "inplace", "fresh"} ->
                     SetHandle(HeapAlloc(FreeF(s, h), layout, h), h,
                               Handle("vec", BlockPtr(Len(s.blocks) + 1), newCap, 0))
               [] oc = "crash" -> [s EXCEPT !.result = "crash"]
               [] OTHER -> [HeapAllocFail(s, layout) EXCEPT !.result = "err_alloc"]

\* Mutant of TryResizeF: the zero-sized branch frees the buffer and keeps the
\* pointer to it.
TryResizeF_KeepPtr(s, h, newCap, oc) ==
    LET hd == s.handles[h]
        layout == MakeLayout(T, newCap)
        old == MakeLayout(T, hd.cap)
    IN  IF ~layout.ok
        THEN [s EXCEPT !.result = "err_layout"]
        ELSE IF layout.size = 0
        THEN LET r == FreeF(s, h)
             IN  IF r.result = "ok"
                 THEN SetHandle(r, h, Handle("vec", hd.ptr, newCap, 0))
                 ELSE r
        ELSE IF ~old.ok
        THEN [s EXCEPT !.result = "panic"]
        ELSE LET r == HeapRealloc(s, hd.ptr, old, layout.size, h, oc)
             IN  CASE oc \in {"moved", "inplace", "fresh"} ->
                        SetHandle(r, h, Handle("vec", ReallocPtr(s, hd.ptr, oc), newCap, 0))
                   [] oc = "crash" -> [r EXCEPT !.result = "crash"]
                   [] OTHER -> [r EXCEPT !.result = "err_alloc"]

\* Mutant of TryResizeF: the zero-sized branch without self.free().
TryResizeF_NoFree(s, h, newCap, oc) ==
    LET hd == s.handles[h]
        layout == MakeLayout(T, newCap)
        old == MakeLayout(T, hd.cap)
    IN  IF ~layout.ok
        THEN [s EXCEPT !.result = "err_layout"]
        ELSE IF layout.size = 0
        THEN SetHandle(s, h, Handle("vec", Dangling(T), newCap, 0))
        ELSE IF ~old.ok
        THEN [s EXCEPT !.result = "panic"]
        ELSE LET r == HeapRealloc(s, hd.ptr, old, layout.size, h, oc)
             IN  CASE oc \in {"moved", "inplace", "fresh"} ->
                        SetHandle(r, h, Handle("vec", ReallocPtr(s, hd.ptr, oc), newCap, 0))
                   [] oc = "crash" -> [r EXCEPT !.result = "crash"]
                   [] OTHER -> [r EXCEPT !.result = "err_alloc"]

\* RawVec::try_resize(&mut self, new_cap), oc being what realloc does.
TryResizeF(s, h, newCap, oc) ==
    LET hd == s.handles[h]
        layout == MakeLayout(T, newCap)
        old == MakeLayout(T, hd.cap)
    IN  IF ~layout.ok
        THEN [s EXCEPT !.result = "err_layout"]
        ELSE IF layout.size = 0
        THEN LET r == FreeF(s, h)
             IN  IF r.result = "ok"
                 THEN SetHandle(r, h, Handle("vec", Dangling(T), newCap, 0))
                 ELSE r
        ELSE IF ~old.ok
        THEN [s EXCEPT !.result = "panic"]
        ELSE LET r == HeapRealloc(s, hd.ptr, old, layout.size, h, oc)
             IN  CASE oc \in {"moved", "inplace", "fresh"} ->
                        SetHandle(r, h, Handle("vec", ReallocPtr(s, hd.ptr, oc), newCap, 0))
                   [] oc = "crash" -> [r EXCEPT !.result = "crash"]
                   [] OTHER -> [r EXCEPT !.result = "err_alloc"]

\* What the realloc of try_resize(new_cap) may do; "none" when try_resize
\* makes no realloc call.
ResizeOutcomes(s, h, newCap) ==
    LET layout == MakeLayout(T, newCap)
        old == MakeLayout(T, s.handles[h].cap)
    IN  IF layout.ok /\ layout.size # 0 /\ old.ok
        THEN ReallocOutcomes(s, s.handles[h].ptr, old)
        ELSE {"none"}

\* RawVec::resize(&mut self, new_cap)
ResizeF(s, h, newCap, oc) == Infallible(TryResizeF(s, h, newCap, oc))

\* RawVec::cap(&self)
CapF(s, h) == [s EXCEPT !.ret = s.handles[h].cap]

\* The bytes the user writes over a buffer of size bytes: byte i holds i.
Pattern(size) == [i \in 1 .. size |-> i]

\* The user writes a pattern over the whole buffer, through the pointer of
\* RawVec::raw(&self).
WriteAllF(s, h) ==
    LET b == s.handles[h].ptr.base
    IN  [s EXCEPT !.blocks[b].data = Pattern(s.blocks[b].size)]

\* Vec::<T>::capacity() of a Vec built with capacity cap: usize::MAX for a
\* zero-sized T, whatever it was built with.
VecCapacity(t, cap) == IF t.size = 0 THEN UsizeMax ELSE cap

\* Mutant of IntoVecF: into_vec without mem::forget(self), so the drop of the
\* RawVec runs when into_vec returns.
IntoVecF_NoForget(s, h, len) ==
    LET hd == s.handles[h]
    IN  SetHandle(FreeF(s, h), h, Handle("stdvec", hd.ptr, hd.cap, len))

\* RawVec::into_vec(self, len): Vec::from_raw_parts(ptr, len, cap), self
\* forgotten.  The handle is then the Vec: its pointer, the capacity it was
\* built with and, in val, its length.
IntoVecF(s, h, len) ==
    LET hd == s.handles[h]
    IN  SetHandle(s, h, Handle("stdvec", hd.ptr, hd.cap, len))

\* RawVec::from_vec(vec): ptr = vec.as_mut_ptr(), cap = vec.capacity(), vec
\* forgotten.
FromVecF(s, h) ==
    LET hd == s.handles[h]
    IN  SetHandle(s, h, Handle("vec", hd.ptr, VecCapacity(T, hd.cap), 0))

\* <RawVec<T> as Drop>::drop: self.free().
VecDropF(s, h) == Gone(FreeF(s, h), h)

\* <RawVec<T> as From<UninitAlloc<T>>>::from(alloc): ptr = alloc.into_raw(),
\* cap = 1.
VecFromUninitF(s, h) ==
    LET r == UninitIntoRawF(s, h)
    IN  SetHandle(r, h, Handle("vec", r.handles[h].ptr, 1, r.handles[h].val))

\* RawVec::into_raw_slice(self): the pointer to the slice of cap elements,
\* self forgotten.
IntoRawSliceF(s, h) == SetKind(s, h, "rawS")

\* <UninitAlloc<[T]> as From<RawVec<T>>>::from(alloc): ptr =
\* alloc.into_raw_slice().
UninitFromVecF(s, h) == SetKind(IntoRawSliceF(s, h), h, "slice")

\* ---------------------------------------------------- the zeroizing Allocator

NullPtr == [base |-> 0, off |-> 0]

\* The bytes p .. p + n - 1 lie in a live block.
InBlock(bs, p, n) ==
    /\ p.base \in 1 .. Len(bs)
    /\ bs[p.base].live
    /\ p.off + n <= bs[p.base].size

\* The n bytes at p, as far as they lie in the block p points into.
BytesAt(bs, p, n) ==
    IF p.base \in 1 .. Len(bs)
    THEN [i \in 1 .. Min(n, Len(bs[p.base].data) - p.off) |-> bs[p.base].data[p.off + i]]
    ELSE <<>>

\* alloc::alloc::alloc_zeroed(layout) returning a new block of zero bytes, at
\* an address that is mis modulo the alignment.
SysAllocZeroed(s, layout, h, mis) ==
    [s EXCEPT
        !.blocks = Append(@, [size |-> layout.size, align |-> layout.align,
                              live |-> TRUE, owner |-> h, frees |-> 0,
                              data |-> [i \in 1 .. layout.size |-> 0], mis |-> mis]),
        !.events = Append(@, EvAllocZeroed(layout, BlockPtr(Len(s.blocks) + 1)))]

\* alloc::alloc::alloc_zeroed(layout) returning null.
SysAllocZeroedFail(s, layout) ==
    [s EXCEPT !.events = Append(@, EvAllocZeroed(layout, NullPtr))]

\* What alloc_zeroed may answer: null (ok FALSE), or a new block at an address
\* that is mis modulo the alignment.  Allocator::alloc tests the alignment of
\* the answer (lib.rs:63-64) instead of relying on it, so every residue is an
\* answer.
SysOutcomes(s, layout) ==
    {[ok |-> FALSE, mis |-> 0]}
    \cup (IF Len(s.blocks) < MaxAllocs
          THEN {[ok |-> TRUE, mis |-> m] : m \in 0 .. (layout.align - 1)}
          ELSE {})

\* ptr.align_offset(align) of a pointer into block b at offset off.
AlignOffset(b, off, align) == (align - ((b.mis + off) % align)) % align

\* core::ptr::write_bytes(p, 0, n): the bytes of p's block from p on become 0.
\* A write past the end of the block, or to no live block, is outside the
\* contract of write_bytes and is recorded in ub.
WriteBytes(s, p, n) ==
    [s EXCEPT
        !.blocks = IF p.base \in 1 .. Len(s.blocks)
                   THEN [@ EXCEPT ![p.base].data =
                            [i \in 1 .. Len(@) |->
                                IF i > p.off /\ i <= p.off + n THEN 0 ELSE @[i]]]
                   ELSE @,
        !.ub = @ \/ (n # 0 /\ ~InBlock(s.blocks, p, n)),
        !.events = Append(@, EvZero(p, n))]

\* core::ptr::copy_nonoverlapping(src, dst, n)
CopyBytes(s, src, dst, n) ==
    LET from == BytesAt(s.blocks, src, n)
    IN  [s EXCEPT
            !.blocks = IF dst.base \in 1 .. Len(s.blocks)
                       THEN [@ EXCEPT ![dst.base].data =
                                [i \in 1 .. Len(@) |->
                                    IF i > dst.off /\ i <= dst.off + Len(from)
                                    THEN from[i - dst.off]
                                    ELSE @[i]]]
                       ELSE @,
            !.ub = @ \/ (n # 0 /\ ~(InBlock(s.blocks, src, n) /\ InBlock(s.blocks, dst, n))),
            !.events = Append(@, EvCopy(dst, n))]

\* The state with p as the pointer the call in progress has in hand.
WithPtr(s, h, p) == [s EXCEPT !.handles[h].ptr = p]

\* <Allocator as GlobalAlloc>::alloc(layout), sys being the answer of
\* alloc_zeroed: null is returned as it is; an aligned pointer as it is; else
\* the pointer moved up by its align_offset, and size bytes from there zeroed.
\* The pointer returned is left in slot h (NullPtr: null).
ZAllocF(s, h, layout, sys) ==
    IF ~sys.ok
    THEN WithPtr(SysAllocZeroedFail(s, layout), h, NullPtr)
    ELSE LET r == SysAllocZeroed(s, layout, h, sys.mis)
             b == Len(r.blocks)
             offset == AlignOffset(r.blocks[b], 0, layout.align)
         IN  IF offset = 0
             THEN WithPtr(r, h, BlockPtr(b))
             ELSE WithPtr(WriteBytes(r, [base |-> b, off |-> offset], layout.size), h,
                          [base |-> b, off |-> offset])

\* <Allocator as GlobalAlloc>::alloc_zeroed(layout): self.alloc(layout), then
\* write_bytes(ptr, 0, size) unless null.
ZAllocZeroedF(s, h, layout, sys) ==
    LET r == ZAllocF(s, h, layout, sys)
    IN  IF r.handles[h].ptr # NullPtr
        THEN WriteBytes(r, r.handles[h].ptr, layout.size)
        ELSE r

\* <Allocator as GlobalAlloc>::dealloc(ptr, layout): write_bytes(ptr, 0, size),
\* then dealloc(ptr, layout).
ZDeallocF(s, p, layout) == HeapDealloc(WriteBytes(s, p, layout.size), p, layout)

\* Mutant of ZReallocF: the old block is not released.
ZReallocF_NoRelease(s, h, p, layout, newSize, sys) ==
    LET newLayout == [size |-> newSize, align |-> layout.align]
        r == ZAllocF(s, h, newLayout, sys)
        q == r.handles[h].ptr
    IN  IF q # NullPtr
        THEN CopyBytes(r, p, q, Min(layout.size, newSize))
        ELSE r

\* <Allocator as GlobalAlloc>::realloc(ptr, layout, new_size): self.alloc of
\* the new layout; unless null, the lesser of the two sizes is copied and the
\* old block goes to self.dealloc.  The pointer returned is left in slot h.
ZReallocF(s, h, p, layout, newSize, sys) ==
    LET newLayout == [size |-> newSize, align |-> layout.align]
        r == ZAllocF(s, h, newLayout, sys)
        q == r.handles[h].ptr
    IN  IF q # NullPtr
        THEN ZDeallocF(CopyBytes(r, p, q, Min(layout.size, newSize)), p, layout)
        ELSE r

\* Allocator::deallocate::<T>(ptr, layout), the inherent method:
\* GlobalAlloc::dealloc(self, ptr as *mut u8, layout).
DeallocateTypedF(s, p, layout) == ZDeallocF(s, p, layout)

\* Allocator::reallocate::<T>(ptr, layout, new_size): self.alloc of the new
\* layout; unless null, copy_nonoverlapping(ptr, new_ptr, min(layout.size(),
\* new_size)) with ptr and new_ptr of type *mut T, which copies that count of
\* values of T, that is count * size_of::<T>() bytes; then the inherent
\* deallocate(ptr, layout).  The pointer returned is left in slot h.
ReallocateF(s, h, p, layout, newSize, sys) ==
    LET newLayout == [size |-> newSize, align |-> layout.align]
        r == ZAllocF(s, h, newLayout, sys)
        q == r.handles[h].ptr
    IN  IF q # NullPtr
        THEN DeallocateTypedF(CopyBytes(r, p, q, Min(layout.size, newSize) * T.size), p,
                              layout)
        ELSE r

\* Allocator::alloc_impl(layout, zeroed): for size 0 the address layout.align()
\* with length 0; else the raw alloc or alloc_zeroed, null giving Err(AllocError),
\* with length size.  The length is left in ret.
AllocImplF(s, h, layout, zeroed, sys) ==
    IF layout.size = 0
    THEN [WithPtr(s, h, [base |-> 0, off |-> layout.align]) EXCEPT !.ret = 0]
    ELSE LET r == IF zeroed
                  THEN ZAllocZeroedF(s, h, layout, sys)
                  ELSE ZAllocF(s, h, layout, sys)
         IN  IF r.handles[h].ptr = NullPtr
             THEN [r EXCEPT !.result = "err_alloc"]
             ELSE [r EXCEPT !.ret = layout.size]

\* <Allocator as core::alloc::Allocator>::allocate(layout)
AllocateF(s, h, layout, sys) == AllocImplF(s, h, layout, FALSE, sys)

\* <Allocator as core::alloc::Allocator>::allocate_zeroed(layout)
AllocateZeroedF(s, h, layout, sys) == AllocImplF(s, h, layout, TRUE, sys)

\* <Allocator as core::alloc::Allocator>::deallocate(ptr, layout):
\* GlobalAlloc::dealloc(&ALLOCATOR, ptr, layout) if layout.size() == 0.
DeallocateF(s, p, layout) ==
    IF layout.size = 0 THEN ZDeallocF(s, p, layout) ELSE s

\* The layouts asked of the Allocator: those of [T; n].
ZLayout(n) == [size |-> T.size * n, align |-> T.align]

\* The caller takes what an acquiring call left in slot h: on null (or Err)
\* the slot is as it was before the call (handle pre), else it holds the
\* block, of n elements.
Taken(r, h, kind, n, pre, failed) ==
    IF r.handles[h].ptr = NullPtr
    THEN [SetHandle(r, h, pre) EXCEPT !.result = failed]
    ELSE SetHandle(r, h, Handle(kind, r.handles[h].ptr, n, 0))

\* The user writes a pattern over the size bytes at the pointer of slot h.
ZWriteAllF(s, h) ==
    LET q == s.handles[h].ptr
        size == ZLayout(s.handles[h].cap).size
    IN  [s EXCEPT !.blocks[q.base].data =
            [i \in 1 .. Len(@) |->
                IF i > q.off /\ i <= q.off + size THEN i - q.off ELSE @[i]]]

\* ------------------------------------------------------------ the observer

\* A call as the observer records it.
Call(op, arg) == [op |-> op, arg |-> arg]

\* The runs the properties below speak of, as the calls made from the start:
\* the drop of a fresh OwnedAlloc, the decompose round trip, the release of a
\* slot, the drop of a never-initialized UninitAlloc, the passage through Box
\* and back, the reads and the write of test::inner_eq and the capacities of
\* test::cap_is_the_one_passed.  Value 1 is the first value the user
\* constructs, value 2 the second.
RoundTrip ==
    <<Call("owned_new", 1), Call("move_inner", 0), Call("init", 2), Call("deref", 0)>>

RoundTripA == RoundTrip \o <<Call("drop_owned", 0), Call("drop_value", 1)>>

RoundTripB == RoundTrip \o <<Call("drop_value", 1), Call("drop_owned", 0)>>

DropRun == <<Call("owned_new", 1), Call("drop_owned", 0)>>

ReleaseRun == <<Call("owned_new", 1), Call("drop_in_place", 0), Call("drop_uninit", 0)>>

UninitTryRun == <<Call("uninit_try_new", 0), Call("drop_uninit", 0)>>

UninitNewRun == <<Call("uninit_new", 0), Call("drop_uninit", 0)>>

IntoBoxRun == <<Call("owned_new", 1), Call("into_box", 0), Call("deref", 0)>>

BoxDropRun == IntoBoxRun \o <<Call("drop_box", 0)>>

FromBoxRun == IntoBoxRun \o <<Call("from_box", 0), Call("deref", 0)>>

BoxBackRun == FromBoxRun \o <<Call("drop_owned", 0)>>

InnerEqRun ==
    <<Call("owned_new", 1), Call("deref", 0), Call("deref_mut", 2), Call("deref", 0)>>

\* test::cap_is_the_one_passed, with capacities 1, 2 and 1 for 20, 50 and 5.
CapRun ==
    <<Call("with_capacity", 1), Call("cap", 0), Call("resize", 2), Call("cap", 0),
      Call("resize", 1), Call("cap", 0)>>

\* test::from_into_std_vec, with capacity 1 for 465.
FromIntoRun ==
    <<Call("with_capacity", 1), Call("into_vec", 0), Call("from_vec", 0), Call("cap", 0)>>

\* A RawVec of capacity 1 resized to capacity 0 and dropped.
ZeroResizeRun ==
    <<Call("with_capacity", 1), Call("try_resize", 0), Call("drop_vec", 0)>>

Scenarios ==
    { DropRun, RoundTripA, RoundTripB, ReleaseRun, UninitTryRun, UninitNewRun,
      BoxDropRun, BoxBackRun, InnerEqRun, CapRun, FromIntoRun, ZeroResizeRun }

IsPrefix(p, q) == Len(p) <= Len(q) /\ SubSeq(q, 1, Len(p)) = p

ObsOff == <<Call("off", 0)>>

\* The observer after a call: the run so far while every call succeeded and
\* the run is the beginning of a scenario, else off.  It only watches.
ObsNext(o, op, arg, res) ==
    LET run == Append(o, Call(op, arg))
    IN  IF res = "ok" /\ \E sc \in Scenarios : IsPrefix(run, sc) THEN run ELSE ObsOff

\* ----------------------------------------------------------------- actions

\* The process is alive: no panic, no handle_alloc_error, no crash.
Running == result \notin {"panic", "abort", "crash"}

Kind(h) == handles[h].kind

\* Slot h is where the user's next handle goes: slot 1.
Unused(h) == h = 1 /\ Kind(h) = "none"

\* The bytes of the live block p points to (none when it points to none).
Pointee(bs, p) ==
    IF p.base \in 1 .. Len(bs) /\ bs[p.base].live THEN bs[p.base].data ELSE <<>>

\* The call op on slot h with argument arg ends in state s.
Commit(op, h, arg, s) ==
    /\ handles' = s.handles
    /\ blocks' = s.blocks
    /\ drops' = s.drops
    /\ locals' = s.locals
    /\ events' = s.events
    /\ result' = s.result
    /\ ret' = s.ret
    /\ ub' = s.ub
    /\ lastOp' = [op |-> op, h |-> h, arg |-> arg,
                  pre |-> IF h \in Slots THEN handles[h] ELSE NoHandle,
                  data |-> IF h \in Slots THEN Pointee(blocks, handles[h].ptr) ELSE <<>>]
    /\ obs' = ObsNext(obs, op, arg, s.result)
    /\ T' = T

Init ==
    /\ T \in Types
    /\ handles = [h \in Slots |-> NoHandle]
    /\ blocks = <<>>
    /\ drops = <<>>
    /\ locals = {}
    /\ events = <<>>
    /\ result = "ok"
    /\ ret = 0
    /\ ub = FALSE
    /\ lastOp = [op |-> "none", h |-> 0, arg |-> 0, pre |-> NoHandle, data |-> <<>>]
    /\ obs = <<>>

UninitTryNew(h) ==
    /\ Running /\ Unused(h)
    /\ \E ok \in AllocOutcomes(St, LayoutNew(T)) :
          Commit("uninit_try_new", h, 0, UninitTryNewF(Enter(St), h, ok))

UninitNew(h) ==
    /\ Running /\ Unused(h)
    /\ \E ok \in AllocOutcomes(St, LayoutNew(T)) :
          Commit("uninit_new", h, 0, UninitNewF(Enter(St), h, ok))

UninitInit(h) ==
    /\ Running /\ Kind(h) = "uninit"
    /\ \E v \in ArgValues(St) :
          Commit("init", h, v, InitF(PassValue(Enter(St), v), h, v))

UninitIntoRaw(h) ==
    /\ Running /\ Kind(h) = "uninit"
    /\ Commit("uninit_into_raw", h, 0, UninitIntoRawF(Enter(St), h))

UninitFromRaw(h) ==
    /\ Running /\ Kind(h) = "rawU"
    /\ Commit("uninit_from_raw", h, 0, UninitFromRawF(Enter(St), h))

UninitDrop(h) ==
    /\ Running /\ Kind(h) \in {"uninit", "slice"}
    /\ Commit("drop_uninit", h, 0, UninitDropF(Enter(St), h))

OwnedNew(h) ==
    /\ Running /\ Unused(h)
    /\ \E v \in ArgValues(St), ok \in AllocOutcomes(St, LayoutNew(T)) :
          Commit("owned_new", h, v, OwnedNewF(PassValue(Enter(St), v), h, v, ok))

OwnedTryNew(h) ==
    /\ Running /\ Unused(h)
    /\ \E v \in ArgValues(St), ok \in AllocOutcomes(St, LayoutNew(T)) :
          Commit("owned_try_new", h, v, OwnedTryNewF(PassValue(Enter(St), v), h, v, ok))

MoveInner(h) ==
    /\ Running /\ Kind(h) = "owned"
    /\ Commit("move_inner", h, 0, MoveInnerF(Enter(St), h))

OwnedIntoRaw(h) ==
    /\ Running /\ Kind(h) = "owned"
    /\ Commit("owned_into_raw", h, 0, OwnedIntoRawF(Enter(St), h))

OwnedFromRaw(h) ==
    /\ Running /\ Kind(h) = "rawO"
    /\ Commit("owned_from_raw", h, 0, OwnedFromRawF(Enter(St), h))

IntoBox(h) ==
    /\ Running /\ Kind(h) = "owned"
    /\ drops[handles[h].val] < MaxDrops
    /\ Commit("into_box", h, 0, IntoBoxF(Enter(St), h))

FromBox(h) ==
    /\ Running /\ Kind(h) = "box"
    /\ Commit("from_box", h, 0, FromBoxF(Enter(St), h))

BoxDrop(h) ==
    /\ Running /\ Kind(h) = "box"
    /\ Commit("drop_box", h, 0, BoxDropF(Enter(St), h))

DropInPlace(h) ==
    /\ Running /\ Kind(h) = "owned"
    /\ Commit("drop_in_place", h, 0, DropInPlaceF(Enter(St), h))

ForgetInner(h) ==
    /\ Running /\ Kind(h) = "owned"
    /\ Commit("forget_inner", h, 0, ForgetInnerF(Enter(St), h))

OwnedDrop(h) ==
    /\ Running /\ Kind(h) = "owned"
    /\ Commit("drop_owned", h, 0, OwnedDropF(Enter(St), h))

\* A read through the handle: `*alloc` of an OwnedAlloc or of the Box it was
\* turned into.
Deref(h) ==
    /\ Running /\ Kind(h) \in {"owned", "box"}
    /\ Commit("deref", h, 0, DerefF(Enter(St), h))

DerefMutAssign(h) ==
    /\ Running /\ Kind(h) = "owned"
    /\ \E w \in ArgValues(St) :
          Commit("deref_mut", h, w, DerefMutAssignF(PassValue(Enter(St), w), h, w))

Clone(h) ==
    /\ Running /\ Kind(h) = "owned"
    /\ Len(drops) < MaxValues
    /\ \E h2 \in Slots \ {h}, ok \in AllocOutcomes(St, LayoutNew(T)) :
          /\ Kind(h2) = "none"
          /\ Commit("clone", h2, Len(drops) + 1,
                    CloneF([Enter(St) EXCEPT !.drops = Append(@, 0)], h, h2,
                           Len(drops) + 1, ok))

\* A value the user holds goes out of scope.
DropValue(v) ==
    /\ Running /\ v \in locals
    /\ Commit("drop_value", 0, v, DropValueF([Enter(St) EXCEPT !.locals = @ \ {v}], v))

VecNew(h) ==
    /\ Running /\ Unused(h)
    /\ Commit("vec_new", h, 0, VecNewF(Enter(St), h))

TryWithCapacity(h) ==
    /\ Running /\ Unused(h)
    /\ \E cap \in Caps :
          \E ok \in AllocOutcomes(St, MakeLayout(T, cap)) :
             Commit("try_with_capacity", h, cap, TryWithCapacityF(Enter(St), h, cap, ok))

WithCapacity(h) ==
    /\ Running /\ Unused(h)
    /\ \E cap \in Caps :
          \E ok \in AllocOutcomes(St, MakeLayout(T, cap)) :
             Commit("with_capacity", h, cap, WithCapacityF(Enter(St), h, cap, ok))

TryResize(h) ==
    /\ Running /\ Kind(h) = "vec"
    /\ \E cap \in Caps :
          \E oc \in ResizeOutcomes(St, h, cap) :
             Commit("try_resize", h, cap, TryResizeF(Enter(St), h, cap, oc))

Resize(h) ==
    /\ Running /\ Kind(h) = "vec"
    /\ \E cap \in Caps :
          \E oc \in ResizeOutcomes(St, h, cap) :
             Commit("resize", h, cap, ResizeF(Enter(St), h, cap, oc))

\* The calls on the zeroizing Allocator, the block in hand being in slot h.
\* The raw interface is called with layouts of non-zero size, as GlobalAlloc
\* requires of its caller.
ZAlloc(h) ==
    /\ Running /\ Unused(h) /\ T.size # 0
    /\ \E n \in 1 .. MaxCap : \E sys \in SysOutcomes(St, ZLayout(n)) :
          Commit("z_alloc", h, n,
                 Taken(ZAllocF(Enter(St), h, ZLayout(n), sys), h, "zraw", n, NoHandle, "null"))

ZAllocZeroed(h) ==
    /\ Running /\ Unused(h) /\ T.size # 0
    /\ \E n \in 1 .. MaxCap : \E sys \in SysOutcomes(St, ZLayout(n)) :
          Commit("z_alloc_zeroed", h, n,
                 Taken(ZAllocZeroedF(Enter(St), h, ZLayout(n), sys), h, "zraw", n, NoHandle,
                       "null"))

ZDealloc(h) ==
    /\ Running /\ Kind(h) = "zraw"
    /\ Commit("z_dealloc", h, 0,
              Gone(ZDeallocF(Enter(St), handles[h].ptr, ZLayout(handles[h].cap)), h))

ZRealloc(h) ==
    /\ Running /\ Kind(h) = "zraw"
    /\ \E n \in 1 .. MaxCap : \E sys \in SysOutcomes(St, ZLayout(n)) :
          Commit("z_realloc", h, n,
                 Taken(ZReallocF(Enter(St), h, handles[h].ptr, ZLayout(handles[h].cap),
                                 ZLayout(n).size, sys),
                       h, "zraw", n, handles[h], "null"))

\* reallocate::<T> on a block of [T; cap] for the size of [T; n].
Reallocate(h) ==
    /\ Running /\ Kind(h) = "zraw"
    /\ \E n \in 1 .. MaxCap : \E sys \in SysOutcomes(St, ZLayout(n)) :
          Commit("reallocate", h, n,
                 Taken(ReallocateF(Enter(St), h, handles[h].ptr, ZLayout(handles[h].cap),
                                   ZLayout(n).size, sys),
                       h, "zraw", n, handles[h], "null"))

Allocate(h) ==
    /\ Running /\ Unused(h)
    /\ \E n \in 0 .. MaxCap : \E sys \in SysOutcomes(St, ZLayout(n)) :
          Commit("allocate", h, n,
                 Taken(AllocateF(Enter(St), h, ZLayout(n), sys), h, "ztyped", n, NoHandle,
                       "err_alloc"))

AllocateZeroed(h) ==
    /\ Running /\ Unused(h)
    /\ \E n \in 0 .. MaxCap : \E sys \in SysOutcomes(St, ZLayout(n)) :
          Commit("allocate_zeroed", h, n,
                 Taken(AllocateZeroedF(Enter(St), h, ZLayout(n), sys), h, "ztyped", n,
                       NoHandle, "err_alloc"))

Deallocate(h) ==
    /\ Running /\ Kind(h) = "ztyped"
    /\ Commit("deallocate", h, 0,
              Gone(DeallocateF(Enter(St), handles[h].ptr, ZLayout(handles[h].cap)), h))

\* The user fills the block in hand, when it has its size bytes in the block
\* and is not yet filled.
ZWriteAll(h) ==
    /\ Running /\ Kind(h) \in {"zraw", "ztyped"}
    /\ ZLayout(handles[h].cap).size # 0
    /\ InBlock(blocks, handles[h].ptr, ZLayout(handles[h].cap).size)
    /\ ZWriteAllF(St, h).blocks # blocks
    /\ Commit("z_write", h, 0, ZWriteAllF(Enter(St), h))

VecCap(h) ==
    /\ Running /\ Kind(h) = "vec"
    /\ Commit("cap", h, 0, CapF(Enter(St), h))

\* The user fills the buffer, when there is one and it is not yet filled.
VecWriteAll(h) ==
    /\ Running /\ Kind(h) = "vec"
    /\ Pointee(blocks, handles[h].ptr) # <<>>
    /\ Pointee(blocks, handles[h].ptr) # Pattern(Len(Pointee(blocks, handles[h].ptr)))
    /\ Commit("write_all", h, 0, WriteAllF(Enter(St), h))

IntoVec(h) ==
    /\ Running /\ Kind(h) = "vec"
    /\ \E len \in 0 .. Min(handles[h].cap, MaxCap) :
          Commit("into_vec", h, len, IntoVecF(Enter(St), h, len))

FromVec(h) ==
    /\ Running /\ Kind(h) = "stdvec"
    /\ Commit("from_vec", h, 0, FromVecF(Enter(St), h))

VecDrop(h) ==
    /\ Running /\ Kind(h) = "vec"
    /\ Commit("drop_vec", h, 0, VecDropF(Enter(St), h))

VecFromUninit(h) ==
    /\ Running /\ Kind(h) = "uninit"
    /\ Commit("vec_from_uninit", h, 0, VecFromUninitF(Enter(St), h))

UninitFromVec(h) ==
    /\ Running /\ Kind(h) = "vec"
    /\ Commit("uninit_from_vec", h, 0, UninitFromVecF(Enter(St), h))

\* The calls on the single-slot handles, their conversions to and from RawVec
\* and the drops.
Next ==
    \/ \E h \in Slots : UninitTryNew(h)
    \/ \E h \in Slots : UninitNew(h)
    \/ \E h \in Slots : UninitInit(h)
    \/ \E h \in Slots : UninitIntoRaw(h)
    \/ \E h \in Slots : UninitFromRaw(h)
    \/ \E h \in Slots : UninitDrop(h)
    \/ \E h \in Slots : OwnedNew(h)
    \/ \E h \in Slots : OwnedTryNew(h)
    \/ \E h \in Slots : MoveInner(h)
    \/ \E h \in Slots : OwnedIntoRaw(h)
    \/ \E h \in Slots : OwnedFromRaw(h)
    \/ \E h \in Slots : IntoBox(h)
    \/ \E h \in Slots : FromBox(h)
    \/ \E h \in Slots : BoxDrop(h)
    \/ \E h \in Slots : DropInPlace(h)
    \/ \E h \in Slots : ForgetInner(h)
    \/ \E h \in Slots : OwnedDrop(h)
    \/ \E h \in Slots : Deref(h)
    \/ \E h \in Slots : DerefMutAssign(h)
    \/ \E h \in Slots : Clone(h)
    \/ \E v \in 1 .. MaxValues : DropValue(v)
    \/ \E h \in Slots : VecFromUninit(h)
    \/ \E h \in Slots : UninitFromVec(h)
    \/ \E h \in Slots : VecDrop(h)

Spec == Init /\ [][Next]_vars

\* The calls on one RawVec.
VecCalls ==
    \/ VecNew(1)
    \/ TryWithCapacity(1)
    \/ WithCapacity(1)
    \/ TryResize(1)
    \/ Resize(1)
    \/ VecCap(1)
    \/ VecDrop(1)

\* The calls on one RawVec and the writes of the user to its buffer.
NextVec == VecCalls \/ VecWriteAll(1)

SpecVec == Init /\ [][NextVec]_vars

\* The calls on one RawVec and its passages through Vec.
NextStd == NextVec \/ IntoVec(1) \/ FromVec(1)

SpecStd == Init /\ [][NextStd]_vars

\* The calls on the zeroizing Allocator.
NextZero ==
    \/ ZAlloc(1)
    \/ ZAllocZeroed(1)
    \/ ZDealloc(1)
    \/ ZRealloc(1)
    \/ Allocate(1)
    \/ AllocateZeroed(1)
    \/ Deallocate(1)
    \/ ZWriteAll(1)

SpecZero == Init /\ [][NextZero]_vars

\* The calls on the zeroizing Allocator with its typed reallocate.
NextTyped == NextZero \/ Reallocate(1)

SpecTyped == Init /\ [][NextTyped]_vars

\* The calls of the three handle types that come to an allocator call for
\* some T (constructors, conversions, drops) and those between them, for a
\* zero-sized T.
InitZst == Init /\ T.size = 0

NextAll ==
    \/ \E h \in Slots : UninitTryNew(h)
    \/ \E h \in Slots : UninitNew(h)
    \/ \E h \in Slots : UninitInit(h)
    \/ \E h \in Slots : UninitDrop(h)
    \/ \E h \in Slots : OwnedNew(h)
    \/ \E h \in Slots : OwnedTryNew(h)
    \/ \E h \in Slots : MoveInner(h)
    \/ \E h \in Slots : DropInPlace(h)
    \/ \E h \in Slots : OwnedDrop(h)
    \/ \E h \in Slots : Clone(h)
    \/ \E v \in 1 .. MaxValues : DropValue(v)
    \/ \E h \in Slots : VecFromUninit(h)
    \/ \E h \in Slots : UninitFromVec(h)
    \/ VecCalls

SpecZst == InitZst /\ [][NextAll]_vars

\* ------------------------------------------------------------------ claims

\* The blocks made for slot h that the heap has not taken back.
LiveFor(h) == { b \in 1 .. Len(blocks) : blocks[b].live /\ blocks[b].owner = h }

\* The kinds of handle that own their block (a raw pointer the user holds
\* after into_raw owns nothing).
Owning == {"uninit", "owned", "box", "vec", "slice"}

NoAllocatorCall(evs) ==
    Only(evs, "alloc") = <<>> /\ Only(evs, "dealloc") = <<>> /\ Only(evs, "realloc") = <<>>

\* C1: the drop of an OwnedAlloc that was not consumed runs the value's
\* destructor once and then deallocates the block once (no deallocation call
\* when T is zero-sized); afterwards no block made for that slot is live.
C1_OwnedDropDestroysThenDeallocates ==
    lastOp.op = "drop_owned" =>
        /\ events = IF T.size # 0
                    THEN <<EvDrop(lastOp.pre.val), EvDealloc(lastOp.pre.ptr, LayoutNew(T))>>
                    ELSE <<EvDrop(lastOp.pre.val)>>
        /\ LiveFor(lastOp.h) = {}

\* C2: whatever calls were made, no two live owning handles point to the same
\* block, no block has been deallocated twice, and no live owning handle
\* points to a block the heap has taken back.
C2_ExclusiveOwnership ==
    /\ \A h1, h2 \in Slots :
          (/\ h1 # h2
           /\ handles[h1].kind \in Owning /\ handles[h2].kind \in Owning
           /\ handles[h1].ptr.base # 0)
          => handles[h1].ptr.base # handles[h2].ptr.base
    /\ \A b \in 1 .. Len(blocks) : blocks[b].frees <= 1
    /\ \A h \in Slots :
          (handles[h].kind \in Owning /\ handles[h].ptr.base # 0)
          => /\ handles[h].ptr.base \in 1 .. Len(blocks)
             /\ blocks[handles[h].ptr.base].live

\* Two live handles, one of them a clone and the other converted to a RawVec,
\* each on a block of its own.
C2_Witness ==
    /\ handles[1].kind = "vec" /\ handles[2].kind = "owned"
    /\ handles[1].ptr.base # 0 /\ handles[2].ptr.base # 0

\* C3: into_box and from_box run no destructor; a value put in an OwnedAlloc,
\* turned into a Box and dropped with the Box (or turned back with from_box and
\* dropped with that OwnedAlloc) has its destructor run exactly once in all,
\* and the value read through the Box or the rebuilt OwnedAlloc is that value.
C3_BoxAdaptersRunNoDestructor ==
    /\ lastOp.op \in {"into_box", "from_box"} => Only(events, "drop") = <<>>
    /\ obs \in {IntoBoxRun, FromBoxRun} => ret = 1
    /\ obs \in {BoxDropRun, BoxBackRun} => drops[1] = 1

\* C4: move_inner returns the stored value and an UninitAlloc with the same
\* pointer, makes no allocator call and runs no destructor; a value the user
\* holds is the value of no owning handle, so that only the user's drop of it
\* runs its destructor.
C4_MoveInnerKeepsBlock ==
    /\ lastOp.op = "move_inner" =>
          /\ handles[lastOp.h].kind = "uninit"
          /\ handles[lastOp.h].ptr = lastOp.pre.ptr
          /\ ret = lastOp.pre.val
          /\ ret \in locals
          /\ events = <<>>
          /\ result = "ok"
    /\ \A v \in locals : \A h \in Slots :
          handles[h].kind \in {"owned", "box", "rawO"} => handles[h].val # v

C4_Witness ==
    /\ lastOp.op = "move_inner" /\ T.size # 0
    /\ ret = 1 /\ handles[lastOp.h].ptr.base # 0

\* C5: drop_in_place runs the destructor of the value once and returns an
\* UninitAlloc with the same pointer, the block still live; the drop of that
\* UninitAlloc then deallocates the block once and runs no destructor (T
\* zero-sized: there is no block and no deallocation call).
C5_DropInPlaceKeepsBlock ==
    /\ lastOp.op = "drop_in_place" =>
          /\ events = <<EvDrop(lastOp.pre.val)>>
          /\ handles[lastOp.h].kind = "uninit"
          /\ handles[lastOp.h].ptr = lastOp.pre.ptr
          /\ lastOp.pre.ptr.base # 0 =>
                /\ blocks[lastOp.pre.ptr.base].live
                /\ blocks[lastOp.pre.ptr.base].frees = 0
    /\ obs = ReleaseRun =>
          /\ events = IF T.size # 0
                      THEN <<EvDealloc(BlockPtr(1), LayoutNew(T))>>
                      ELSE <<>>
          /\ drops = <<1>>
          /\ ~ub
          /\ T.size # 0 => (~blocks[1].live /\ blocks[1].frees = 1)

C5_Witness == obs = ReleaseRun /\ T.size # 0 /\ Len(blocks) = 1

\* C6: the drop of an UninitAlloc makes one deallocation call, on its block
\* and with the layout the block was allocated with, and runs no destructor;
\* it makes no call when the layout is zero-sized.  In particular for an
\* UninitAlloc from try_new or new that was never initialized.
C6_UninitDropDeallocatesOnce ==
    /\ lastOp.op = "drop_uninit" =>
          LET layout == LayoutForValue(T, lastOp.pre)
          IN  /\ events = IF layout.size # 0
                          THEN <<EvDealloc(lastOp.pre.ptr, layout)>>
                          ELSE <<>>
              /\ ~ub
              /\ layout.size # 0 => blocks[lastOp.pre.ptr.base].frees = 1
    /\ obs \in {UninitTryRun, UninitNewRun} =>
          /\ drops = <<>>
          /\ LiveFor(1) = {}
          /\ Len(blocks) = IF T.size # 0 THEN 1 ELSE 0

C6_Witness == obs = UninitTryRun /\ T.size # 0 /\ blocks[1].frees = 1

\* C7: init(value) leaves an OwnedAlloc with the pointer of the UninitAlloc
\* and value in it, having made no allocator call and run no destructor.
C7_InitWritesInPlace ==
    lastOp.op = "init" =>
        /\ handles[lastOp.h].kind = "owned"
        /\ handles[lastOp.h].ptr = lastOp.pre.ptr
        /\ handles[lastOp.h].val = lastOp.arg
        /\ events = <<>>
        /\ result = "ok"
        /\ lastOp.pre.ptr.base # 0 => blocks[lastOp.pre.ptr.base].live

C7_Witness == lastOp.op = "init" /\ T.size # 0 /\ handles[lastOp.h].ptr.base # 0

\* C8: OwnedAlloc::new(v) reads as v, and as w after w was written through the
\* mutable dereference; a read makes no call at all and the write no allocator
\* call, and neither fails.
C8_DerefGivesTheValue ==
    /\ lastOp.op = "deref" => (events = <<>> /\ result = "ok" /\ ret = handles[lastOp.h].val)
    /\ lastOp.op = "deref_mut" => (NoAllocatorCall(events) /\ result = "ok")
    /\ obs = SubSeq(InnerEqRun, 1, 2) => ret = 1
    /\ obs = InnerEqRun => ret = 2

C8_Witness == obs = InnerEqRun

\* C9 as stated: in the round trip new(a), move_inner, init(b), the drops of
\* the slot and of a, move_inner yields a, the re-initialized slot reads as b,
\* exactly one allocation call is made, no block is deallocated twice and the
\* destructors of a and of b have each run exactly once.
C9_RoundTripOneAllocation ==
    /\ obs = SubSeq(RoundTrip, 1, 2) => ret = 1
    /\ obs = RoundTrip => ret = 2
    /\ obs \in {RoundTripA, RoundTripB} =>
          /\ Len(blocks) = 1
          /\ \A b \in 1 .. Len(blocks) : blocks[b].frees <= 1
          /\ drops = <<1, 1>>

\* C9 as amended: the same, with exactly one allocation call when T is not
\* zero-sized and none when it is.
C9_RoundTrip ==
    /\ obs = SubSeq(RoundTrip, 1, 2) => ret = 1
    /\ obs = RoundTrip => ret = 2
    /\ obs \in {RoundTripA, RoundTripB} =>
          /\ Len(blocks) = IF T.size # 0 THEN 1 ELSE 0
          /\ \A b \in 1 .. Len(blocks) : blocks[b].frees <= 1
          /\ drops = <<1, 1>>

C9_Witness == obs = RoundTripA /\ T.size # 0

\* C10: a RawVec made and changed by new, with_capacity, try_with_capacity,
\* resize and try_resize, whether they succeed or fail, has no live block when
\* its capacity is 0 or T is zero-sized, and else exactly one live block, of
\* cap * size_of(T) bytes, to which its pointer points.
C10_RawVecBlock ==
    handles[1].kind = "vec" =>
        IF handles[1].cap = 0 \/ T.size = 0
        THEN LiveFor(1) = {}
        ELSE /\ LiveFor(1) = {handles[1].ptr.base}
             /\ handles[1].ptr.off = 0
             /\ blocks[handles[1].ptr.base].size = handles[1].cap * T.size

\* A RawVec that resize moved from one block to another of a different size.
C10_Witness ==
    /\ handles[1].kind = "vec" /\ T.size # 0
    /\ lastOp.op \in {"resize", "try_resize"} /\ result = "ok"
    /\ lastOp.pre.cap # 0 /\ handles[1].cap \notin {0, lastOp.pre.cap}
    /\ handles[1].ptr # lastOp.pre.ptr

\* The capacity-modifiers of RawVec.
Modifiers == {"with_capacity", "try_with_capacity", "resize", "try_resize"}

\* C11: cap() is the capacity passed to the last capacity-modifier that
\* succeeded and 0 after new(), for every T (zero-sized too) and through grows
\* and shrinks: a modifier that succeeds leaves the capacity it was passed, one
\* that fails leaves the capacity as it was, and cap() returns the capacity.
C11_CapIsTheOnePassed ==
    /\ lastOp.op = "vec_new" => handles[1].cap = 0
    /\ (lastOp.op \in Modifiers /\ result = "ok") =>
          (handles[1].kind = "vec" /\ handles[1].cap = lastOp.arg)
    /\ (lastOp.op \in Modifiers /\ result # "ok") => handles[1].cap = lastOp.pre.cap
    /\ lastOp.op = "cap" => (ret = handles[1].cap /\ handles[1] = lastOp.pre)
    /\ obs = SubSeq(CapRun, 1, 2) => ret = 1
    /\ obs = SubSeq(CapRun, 1, 4) => ret = 2
    /\ obs = CapRun => ret = 1

\* test::cap_is_the_one_passed run to its end, on a T that is not zero-sized.
C11_Witness == obs = CapRun /\ T.size # 0

\* C12: a try_resize that returns Err (layout overflow, or realloc returning
\* null) leaves the pointer and the capacity of the RawVec as they were and the
\* original block live with the bytes it held, and has deallocated nothing.
C12_TryResizeErrLeavesAll ==
    (lastOp.op = "try_resize" /\ result \in {"err_layout", "err_alloc"}) =>
        /\ handles[1] = lastOp.pre
        /\ Only(events, "dealloc") = <<>>
        /\ Pointee(blocks, handles[1].ptr) = lastOp.data
        /\ lastOp.pre.ptr.base # 0 =>
              /\ blocks[lastOp.pre.ptr.base].live
              /\ blocks[lastOp.pre.ptr.base].frees = 0
              /\ blocks[lastOp.pre.ptr.base].size = lastOp.pre.cap * T.size
        /\ result = "err_layout" => events = <<>>

\* realloc returned null to a RawVec whose buffer the user had filled.
C12_Witness ==
    /\ lastOp.op = "try_resize" /\ result = "err_alloc"
    /\ lastOp.data # <<>> /\ lastOp.data = Pattern(Len(lastOp.data))

\* C13: a try_resize(new_cap) that succeeds with a new size in bytes that is
\* not zero makes exactly one realloc call (on the pointer and the layout of
\* the old capacity, for the new size) and no other allocator call, and the
\* first min(old_cap, new_cap) * size_of(T) bytes of the buffer are the bytes
\* that were there before the call.
C13_TryResizeKeepsPrefix ==
    (/\ lastOp.op = "try_resize" /\ result = "ok"
     /\ MakeLayout(T, lastOp.arg).size # 0) =>
        LET kept == Min(lastOp.pre.cap, lastOp.arg) * T.size
        IN  /\ events = <<EvRealloc(lastOp.pre.ptr, MakeLayout(T, lastOp.pre.cap),
                                    lastOp.arg * T.size)>>
            /\ Len(Pointee(blocks, handles[1].ptr)) = lastOp.arg * T.size
            /\ \A i \in 1 .. kept :
                  Pointee(blocks, handles[1].ptr)[i] = lastOp.data[i]

\* A buffer the user had filled, shrunk to a smaller capacity that is not 0.
C13_Witness ==
    /\ lastOp.op = "try_resize" /\ result = "ok"
    /\ lastOp.arg # 0 /\ lastOp.arg < lastOp.pre.cap /\ T.size # 0
    /\ lastOp.data = Pattern(Len(lastOp.data))

\* size_of(T) * cap does not fit usize, or does not once rounded up to the
\* alignment of T.
Overflows(t, cap) ==
    \/ t.size * cap > UsizeMax
    \/ t.size * cap + (t.align - 1) - ((t.size * cap + (t.align - 1)) % t.align) > UsizeMax

\* C14: try_with_capacity(cap) and try_resize(cap) return Err(Layout)
\* whenever size_of(T) * cap overflows usize or is no valid size of a Layout
\* once rounded, and then make no call to the allocator; they return
\* Err(Layout) in no other case.
C14_OverflowIsLayoutError ==
    lastOp.op \in {"try_with_capacity", "try_resize"} =>
        /\ Overflows(T, lastOp.arg) => (result = "err_layout" /\ events = <<>>)
        /\ result = "err_layout" => Overflows(T, lastOp.arg)

\* try_resize, on a RawVec that holds a block, with a capacity whose size in
\* bytes overflows.
C14_Witness ==
    /\ lastOp.op = "try_resize" /\ lastOp.pre.ptr.base # 0
    /\ result = "err_layout" /\ Overflows(T, lastOp.arg)

\* C15: for a zero-sized T no sequence of calls of UninitAlloc, OwnedAlloc
\* and RawVec (new, init, with_capacity(n), resize(n) for any n, ...) and of
\* drops of their handles makes an alloc, realloc or dealloc call.
C15_ZeroSizedNeverAllocates ==
    T.size = 0 => (NoAllocatorCall(events) /\ blocks = <<>> /\ ~ub)

\* The drop of a RawVec of a zero-sized T whose capacity is not 0.
C15_Witness ==
    /\ T.size = 0 /\ lastOp.op = "drop_vec" /\ lastOp.pre.cap # 0
    /\ handles[1].kind = "gone"

\* The calls to the underlying allocator among a sequence of events.
SystemCalls(evs) ==
    SelectSeq(evs, LAMBDA x : x.e \in {"alloc", "alloc_zeroed", "dealloc", "realloc"})

\* C16: the release of a block of non-zero size through the zeroizing
\* Allocator, by GlobalAlloc::dealloc or by core::alloc::Allocator::deallocate,
\* overwrites all layout.size() bytes of the block with zero and then calls the
\* underlying dealloc once, in that order; the block is then no longer live.
C16_ReleaseZeroesThenFrees ==
    (/\ lastOp.op \in {"z_dealloc", "deallocate"}
     /\ ZLayout(lastOp.pre.cap).size # 0) =>
        /\ events = <<EvZero(lastOp.pre.ptr, ZLayout(lastOp.pre.cap).size),
                      EvDealloc(lastOp.pre.ptr, ZLayout(lastOp.pre.cap))>>
        /\ ~blocks[lastOp.pre.ptr.base].live
        /\ blocks[lastOp.pre.ptr.base].frees = 1

\* C17: for a layout of size 0 allocate and allocate_zeroed return the
\* placeholder whose address is the alignment asked for, with length 0, and
\* neither they nor the deallocate of that placeholder call the underlying
\* allocator.
C17_ZeroSizeNeverReachesSystem ==
    /\ (lastOp.op \in {"allocate", "allocate_zeroed"} /\ ZLayout(lastOp.arg).size = 0) =>
          /\ result = "ok"
          /\ handles[1].ptr = [base |-> 0, off |-> T.align]
          /\ ret = 0
          /\ SystemCalls(events) = <<>>
    /\ (lastOp.op = "deallocate" /\ ZLayout(lastOp.pre.cap).size = 0) =>
          SystemCalls(events) = <<>>

\* C18: whenever GlobalAlloc::alloc or alloc_zeroed of the zeroizing Allocator
\* returns an address that is not null, the address has the alignment asked
\* for, the layout.size() bytes from it on are zero, and all of them lie in the
\* block the underlying allocator handed out, also when the address of that
\* block was misaligned and was adjusted.
C18_AcquiredRegionZeroInBlock ==
    (lastOp.op \in {"z_alloc", "z_alloc_zeroed"} /\ result = "ok") =>
        LET q == handles[1].ptr
            size == ZLayout(lastOp.arg).size
        IN  /\ q.base \in 1 .. Len(blocks)
            /\ (blocks[q.base].mis + q.off) % T.align = 0
            /\ InBlock(blocks, q, size)
            /\ BytesAt(blocks, q, size) = [i \in 1 .. size |-> 0]

AllocFailed(evs) == \E i \in 1 .. Len(evs) : evs[i].e = "alloc" /\ evs[i].p.base = 0

\* The entry points that do not return an error, and their fallible forms.
NonFallible == {"uninit_new", "owned_new", "with_capacity", "resize"}

Fallible == {"uninit_try_new", "owned_try_new", "try_with_capacity", "try_resize"}

\* C20: UninitAlloc::new, OwnedAlloc::new, RawVec::with_capacity and
\* RawVec::resize end an allocation failure in handle_alloc_error and a layout
\* overflow in a panic, two outcomes that can be told apart; their fallible
\* forms return the error and neither abort nor panic.
C20_FailureClassesDistinct ==
    /\ (lastOp.op \in NonFallible /\ AllocFailed(events)) => result = "abort"
    /\ (lastOp.op \in {"with_capacity", "resize"} /\ Overflows(T, lastOp.arg)) =>
          result = "panic"
    /\ (lastOp.op \in NonFallible /\ result = "panic") => ~AllocFailed(events)
    /\ lastOp.op \in Fallible =>
          /\ result \in {"ok", "err_alloc", "err_layout"}
          /\ AllocFailed(events) => result = "err_alloc"

\* C21 as stated: into_vec and from_vec transfer the pointer and the
\* capacity and nothing else: neither makes an allocator call, runs a
\* destructor or frees the block, and with_capacity(c).into_vec(0) followed by
\* from_vec gives a RawVec with the same pointer and cap() == c.
C21_VecRoundTripSameCap ==
    /\ lastOp.op = "into_vec" =>
          /\ handles[1] = Handle("stdvec", lastOp.pre.ptr, lastOp.pre.cap, lastOp.arg)
          /\ events = <<>> /\ result = "ok"
          /\ Pointee(blocks, handles[1].ptr) = lastOp.data
    /\ lastOp.op = "from_vec" =>
          /\ handles[1] = Handle("vec", lastOp.pre.ptr, lastOp.pre.cap, 0)
          /\ events = <<>> /\ result = "ok"
          /\ Pointee(blocks, handles[1].ptr) = lastOp.data
    /\ lastOp.op \in {"into_vec", "from_vec"} =>
          (lastOp.pre.ptr.base # 0 =>
              /\ blocks[lastOp.pre.ptr.base].live
              /\ blocks[lastOp.pre.ptr.base].frees = 0)
    /\ obs = FromIntoRun => ret = 1

\* C21 as amended: the same, the capacity after from_vec being the one
\* passed when T is not zero-sized and usize::MAX, the capacity a Vec of a
\* zero-sized T reports, when it is.
C21_VecRoundTrip ==
    /\ lastOp.op = "into_vec" =>
          /\ handles[1] = Handle("stdvec", lastOp.pre.ptr, lastOp.pre.cap, lastOp.arg)
          /\ events = <<>> /\ result = "ok"
          /\ Pointee(blocks, handles[1].ptr) = lastOp.data
    /\ lastOp.op = "from_vec" =>
          /\ handles[1] = Handle("vec", lastOp.pre.ptr,
                                 IF T.size = 0 THEN UsizeMax ELSE lastOp.pre.cap, 0)
          /\ events = <<>> /\ result = "ok"
          /\ Pointee(blocks, handles[1].ptr) = lastOp.data
    /\ lastOp.op \in {"into_vec", "from_vec"} =>
          (lastOp.pre.ptr.base # 0 =>
              /\ blocks[lastOp.pre.ptr.base].live
              /\ blocks[lastOp.pre.ptr.base].frees = 0)
    /\ obs = FromIntoRun => ret = IF T.size = 0 THEN UsizeMax ELSE 1

\* test::from_into_std_vec run to its end on a T that is not zero-sized.
C21_Witness == obs = FromIntoRun /\ T.size # 0 /\ handles[1].ptr.base # 0

\* C22: a try_resize(new_cap) whose new size in bytes is zero (new_cap is 0
\* or T is zero-sized) deallocates the block of the RawVec once if it has one,
\* makes no alloc and no realloc call, and leaves the placeholder pointer and
\* the capacity new_cap; the drop of a RawVec in that state makes no dealloc
\* call.
C22_ResizeToZeroFreesOnce ==
    /\ (/\ lastOp.op = "try_resize" /\ result = "ok"
        /\ MakeLayout(T, lastOp.arg).size = 0) =>
          /\ events = IF lastOp.pre.ptr.base # 0
                      THEN <<EvDealloc(lastOp.pre.ptr, MakeLayout(T, lastOp.pre.cap))>>
                      ELSE <<>>
          /\ handles[1] = Handle("vec", Dangling(T), lastOp.arg, 0)
          /\ LiveFor(1) = {}
          /\ lastOp.pre.ptr.base # 0 => blocks[lastOp.pre.ptr.base].frees = 1
    /\ (lastOp.op = "drop_vec" /\ (lastOp.pre.cap = 0 \/ T.size = 0)) => events = <<>>
    /\ obs = ZeroResizeRun =>
          /\ events = <<>>
          /\ \A b \in 1 .. Len(blocks) : ~blocks[b].live /\ blocks[b].frees = 1

\* The drop of a RawVec that held a block and was resized to capacity 0.
C22_Witness == obs = ZeroResizeRun /\ T.size # 0 /\ Len(blocks) = 1

\* C23: every realloc and dealloc call a RawVec makes names a block that is
\* live, with the layout the block has; in particular no realloc call is made
\* with the placeholder pointer and a layout of size zero, as a resize from
\* capacity 0 to a capacity of non-zero size would make.
C23_RawVecCallsOnLiveBlocks ==
    /\ ~ub
    /\ lastOp.op \in {"resize", "try_resize", "drop_vec"} =>
          \A i \in 1 .. Len(events) :
              events[i].e \in {"realloc", "dealloc"} =>
                  /\ events[i].p.base # 0
                  /\ events[i].size # 0

\* C24: reallocate::<T>(ptr, layout, new_size) that succeeds copies
\* min(layout.size(), new_size) bytes, no more than the size of either block,
\* from the old block to the new one and then releases the old block; one
\* that fails leaves the old block live with its bytes.
C24_ReallocateCopiesMinBytes ==
    /\ (lastOp.op = "reallocate" /\ result = "ok") =>
          LET q == handles[1].ptr
              old == ZLayout(lastOp.pre.cap)
              new == ZLayout(lastOp.arg)
              kept == Min(old.size, new.size)
          IN  /\ Only(events, "copy") = <<EvCopy(q, kept)>>
              /\ \A i \in 1 .. Len(events) :
                    events[i].e = "copy" =>
                        events[i].size <= old.size /\ events[i].size <= new.size
              /\ (lastOp.pre.ptr.off = 0 /\ q.off = 0) =>
                    /\ blocks[q.base].data =
                          [i \in 1 .. new.size |-> IF i <= kept THEN lastOp.data[i] ELSE 0]
                    /\ ~blocks[lastOp.pre.ptr.base].live
                    /\ blocks[lastOp.pre.ptr.base].frees = 1
                    /\ Only(events, "dealloc") = <<EvDealloc(lastOp.pre.ptr, old)>>
    /\ (lastOp.op = "reallocate" /\ result = "null") =>
          /\ handles[1] = lastOp.pre
          /\ blocks[lastOp.pre.ptr.base].live
          /\ blocks[lastOp.pre.ptr.base].frees = 0
          /\ Pointee(blocks, lastOp.pre.ptr) = lastOp.data
          /\ events = <<EvAllocZeroed(ZLayout(lastOp.arg), NullPtr)>>

====
